---------------------------- MODULE Spec2Model ----------------------------
(***************************************************************************)
(* Model of the MetaTrader 5 MCP server (src/mt5_server_simple.py) and of  *)
(* its diagnostic client (src/test_mt5_server.py).                         *)
(*                                                                         *)
(*   Spec        the tool handlers of the server, called in any order by   *)
(*               any caller, against a library whose calls may succeed,    *)
(*               fail or raise;                                            *)
(*   ParseSpec   the client's parse_sse_response applied to response       *)
(*               bodies built from a small alphabet of text pieces;        *)
(*   ClientSpec  one run of the client's run_all_tests against a server    *)
(*               that may answer any request in any way.                   *)
(***************************************************************************)
EXTENDS Integers, Sequences, FiniteSets, TLC

VARIABLES
    \* ---- server (mt5_server_simple.py) ----
    MT5_AVAILABLE,   \* module flag set by the import of the library
    connected,       \* the library's process-wide terminal connection
    lastTool,        \* name of the tool handler that ran last ("-" at start)
    lastCaller,      \* the caller that invoked it
    lastLib,         \* what the library did during that handler (its input)
    calls,           \* library calls made by that handler, in order
    result,          \* mapping returned by that handler
    propagated,      \* TRUE iff an exception left that handler
    initialize_called, \* TRUE iff the initialize tool has been called so far
    after_initialize,  \* TRUE iff the call before the last one was an
                       \* initialize that returned success = true
    relies,          \* the callers whose own initialize succeeded and who
                     \* have not called shutdown since
    \* ---- parse_sse_response (test_mt5_server.py) ----
    sse_text,        \* the body handed to parse_sse_response
    parsed,          \* what it returned (ParseNotRun before the call)
    \* ---- client run (test_mt5_server.py) ----
    pc,              \* the suite run_all_tests runs next
    session_id,      \* MT5ServerTester.session_id
    hdr_sid,         \* session.headers["mcp-session-id"] ("None": not set)
    initialized,     \* MT5ServerTester._initialized
    sse_working,     \* MT5ServerTester._sse_working
    tests_passed,    \* run_all_tests' counter
    sent,            \* every POST sent so far
    last,            \* the exchanges of the suite that ran last, with what
                     \* came back and what the client made of it
    last_ret,        \* what that suite returned (or raised)
    est_sid,         \* mcp-session-id header of the initialize response that
                     \* established the session ("None": none)
    exit_code,       \* return value of main (NotRun while running)
    \* ---- combined ASGI application (asgi.py) ----
    http_log,        \* the GET requests served so far, each with its answer
    \* ---- launchers (cli.py, asgi.py, run_fixed_server.py, ...) ----
    launch,          \* the launcher that ran, its flags and environment, and
                     \* the address it started the listener on
    cli              \* one invocation of cli.main: what happened during it
                     \* and how it ended

serverVars == <<MT5_AVAILABLE, connected, lastTool, lastCaller, lastLib, calls,
                result, propagated, initialize_called, after_initialize, relies>>
parseVars  == <<sse_text, parsed>>
clientVars == <<pc, session_id, hdr_sid, initialized, sse_working,
                tests_passed, sent, last, last_ret, est_sid, exit_code>>
asgiVars == <<http_log>>
launchVars == <<launch, cli>>
vars == <<serverVars, parseVars, clientVars, asgiVars, launchVars>>

(***************************************************************************)
(* Python values the handlers test: None, booleans, tuples.                *)
(***************************************************************************)
PyNone == [t |-> "None"]
PyBool(b) == [t |-> "bool", b |-> b]
PyTuple(s) == [t |-> "tuple", items |-> s]
PyObject(name) == [t |-> "object", name |-> name]

\* Python truth value, as used by `if not x`
Truthy(v) ==
    CASE v.t = "None" -> FALSE
      [] v.t = "bool" -> v.b
      [] v.t = "tuple" -> Len(v.items) > 0
      [] OTHER -> TRUE

\* `x is None`
IsNone(v) == v.t = "None"

\* What one library call does: returns a value or raises an exception.
Returned(v) == [k |-> "return", v |-> v]
Raised(e) == [k |-> "raise", e |-> e]

\* Texts of the exceptions the library may raise (str(e)).
ExcTexts == {"IPC send failed", "Call timed out"}

\* Codes mt5.last_error() may report.
ErrorCodes == {-10003, -10005}

\* str(error_code) as the f-strings format it
Str(code) ==
    CASE code = -10003 -> "-10003"
      [] code = -10005 -> "-10005"
      [] OTHER -> "?"

VersionTuple == PyTuple(<<500, 4424, "12 Jul 2024">>)
TerminalInfo == PyObject("TerminalInfo")
TerminalDict == [connected |-> "True", build |-> "4424"]

Callers == {"A", "B"}

Raises == {Raised(e) : e \in ExcTexts}

\* Library behaviour during one handler call:
\*   ret   what the handler's one library call does,
\*   err   what mt5.last_error() does if it is called,
\*   conv  what terminal_info._asdict() does if it is called.
InitializeRets == {Returned(PyBool(TRUE)), Returned(PyBool(FALSE))} \cup Raises
VersionRets == {Returned(VersionTuple), Returned(PyNone)} \cup Raises
TerminalInfoRets == {Returned(TerminalInfo), Returned(PyNone)} \cup Raises
ShutdownRets == {Returned(PyNone)} \cup Raises
LastErrorRets == {Returned(c) : c \in ErrorCodes} \cup Raises
AsDictRets == {Returned(TerminalDict)} \cup Raises

LibBehaviour(rets) == [ret : rets, err : LastErrorRets, conv : AsDictRets]

NoLib == [ret |-> Returned(PyNone), err |-> Returned(0), conv |-> Returned(TerminalDict)]

\* What a handler call amounts to: the mapping it returns (NoResult if an
\* exception leaves it), the library calls it made, whether an exception left it.
NoResult == [none |-> TRUE]
Outcome(res, cs) == [result |-> res, calls |-> cs, propagated |-> FALSE]
Propagates(cs) == [result |-> NoResult, calls |-> cs, propagated |-> TRUE]

\* f"...{x}" : the fixed text followed by str(x)
Fmt(text, arg) == <<text, arg>>

\* An exception result that leaves the error text in the message only.
ExceptionResult_message_only(text, e) ==
    [success |-> FALSE, message |-> Fmt(text, e)]

ExceptionResult(text, e) ==
    [success |-> FALSE, message |-> Fmt(text, e), error |-> e]


(***************************************************************************)
(* The tool handlers.  Each takes what the library does during the call    *)
(* and yields the handler's outcome.                                       *)
(***************************************************************************)
NotAvailable(text) ==
    [success |-> FALSE, message |-> <<text>>, error |-> "MT5_NOT_AVAILABLE"]

ErrorCodeResult(text, code) ==
    [success |-> FALSE, message |-> Fmt(text, Str(code)), error_code |-> code]

\* A try block that retries the failed call before asking for the error code.
initialize_try_retry(o) ==
    IF o.ret.k = "raise"
    THEN Outcome(ExceptionResult("MT5 initialization exception: ", o.ret.e),
                 <<"initialize">>)
    ELSE IF ~Truthy(o.ret.v)
    THEN IF o.err.k = "raise"
         THEN Outcome(ExceptionResult("MT5 initialization exception: ", o.err.e),
                      <<"initialize", "initialize", "last_error">>)
         ELSE Outcome(ErrorCodeResult("MT5 initialization failed with error code: ",
                                      o.err.v),
                      <<"initialize", "initialize", "last_error">>)
    ELSE Outcome([success |-> TRUE, message |-> <<"MT5 initialized successfully">>],
                 <<"initialize">>)

\* initialize, lines 71-92: the try block
initialize_try(o) ==
    IF o.ret.k = "raise"
    THEN Outcome(ExceptionResult("MT5 initialization exception: ", o.ret.e),
                 <<"initialize">>)
    ELSE IF ~Truthy(o.ret.v)
    THEN IF o.err.k = "raise"
         THEN Outcome(ExceptionResult("MT5 initialization exception: ", o.err.e),
                      <<"initialize", "last_error">>)
         ELSE Outcome(ErrorCodeResult("MT5 initialization failed with error code: ",
                                      o.err.v),
                      <<"initialize", "last_error">>)
    ELSE Outcome([success |-> TRUE, message |-> <<"MT5 initialized successfully">>],
                 <<"initialize">>)

\* An initialize that refuses to run on a terminal that is already connected.
initialize_once(o) ==
    IF ~MT5_AVAILABLE
    THEN Outcome(NotAvailable("MetaTrader5 package is not installed or available"), <<>>)
    ELSE IF connected
    THEN Outcome([success |-> FALSE,
                  message |-> <<"MT5 is already initialized">>,
                  error |-> "ALREADY_INITIALIZED"],
                 <<>>)
    ELSE initialize_try(o)

initialize(o) ==
    IF ~MT5_AVAILABLE
    THEN Outcome(NotAvailable("MetaTrader5 package is not installed or available"), <<>>)
    ELSE initialize_try(o)

\* get_version, lines 110-136: the try block
get_version_try(o) ==
    IF o.ret.k = "raise"
    THEN Outcome(ExceptionResult("Exception getting version: ", o.ret.e),
                 <<"version">>)
    ELSE IF IsNone(o.ret.v)
    THEN IF o.err.k = "raise"
         THEN Outcome(ExceptionResult("Exception getting version: ", o.err.e),
                      <<"version", "last_error">>)
         ELSE Outcome(ErrorCodeResult("Failed to get version, error code: ", o.err.v),
                      <<"version", "last_error">>)
    ELSE Outcome([success |-> TRUE,
                  message |-> <<"Version retrieved successfully">>,
                  data |-> [version |-> o.ret.v.items[1],
                            build |-> o.ret.v.items[2],
                            date |-> o.ret.v.items[3]]],
                 <<"version">>)

get_version(o) ==
    IF ~MT5_AVAILABLE
    THEN Outcome(NotAvailable("MetaTrader5 package is not available"), <<>>)
    ELSE get_version_try(o)

\* A try block that ends before the conversion of the result.
get_terminal_info_try_short(o) ==
    IF o.ret.k = "raise"
    THEN Outcome(ExceptionResult("Exception getting terminal info: ", o.ret.e),
                 <<"terminal_info">>)
    ELSE IF IsNone(o.ret.v)
    THEN IF o.err.k = "raise"
         THEN Outcome(ExceptionResult("Exception getting terminal info: ", o.err.e),
                      <<"terminal_info", "last_error">>)
         ELSE Outcome(ErrorCodeResult("Failed to get terminal info, error code: ",
                                      o.err.v),
                      <<"terminal_info", "last_error">>)
    ELSE IF o.conv.k = "raise"
    THEN Propagates(<<"terminal_info", "_asdict">>)
    ELSE Outcome([success |-> TRUE,
                  message |-> <<"Terminal info retrieved successfully">>,
                  data |-> o.conv.v],
                 <<"terminal_info", "_asdict">>)

\* get_terminal_info, lines 154-178: the try block
get_terminal_info_try(o) ==
    IF o.ret.k = "raise"
    THEN Outcome(ExceptionResult("Exception getting terminal info: ", o.ret.e),
                 <<"terminal_info">>)
    ELSE IF IsNone(o.ret.v)
    THEN IF o.err.k = "raise"
         THEN Outcome(ExceptionResult("Exception getting terminal info: ", o.err.e),
                      <<"terminal_info", "last_error">>)
         ELSE Outcome(ErrorCodeResult("Failed to get terminal info, error code: ",
                                      o.err.v),
                      <<"terminal_info", "last_error">>)
    ELSE IF o.conv.k = "raise"
    THEN Outcome(ExceptionResult("Exception getting terminal info: ", o.conv.e),
                 <<"terminal_info", "_asdict">>)
    ELSE Outcome([success |-> TRUE,
                  message |-> <<"Terminal info retrieved successfully">>,
                  data |-> o.conv.v],
                 <<"terminal_info", "_asdict">>)

\* A handler without the availability guard: mt5 is None, so the attribute
\* lookup raises inside the try block and no library call is made.
get_terminal_info_unguarded(o) ==
    IF ~MT5_AVAILABLE
    THEN Outcome(ExceptionResult("Exception getting terminal info: ",
                                 "'NoneType' object has no attribute 'terminal_info'"),
                 <<>>)
    ELSE get_terminal_info_try(o)

get_terminal_info(o) ==
    IF ~MT5_AVAILABLE
    THEN Outcome(NotAvailable("MetaTrader5 package is not available"), <<>>)
    ELSE get_terminal_info_try(o)

\* shutdown, lines 195-208: the try block
shutdown_try(o) ==
    IF o.ret.k = "raise"
    THEN Outcome(ExceptionResult("Exception during shutdown: ", o.ret.e),
                 <<"shutdown">>)
    ELSE Outcome([success |-> TRUE,
                  message |-> <<"MT5 connection shut down successfully">>],
                 <<"shutdown">>)

\* A shutdown that reaches for the library whether or not it was imported.
shutdown_always_calls(o) == shutdown_try(o)

\* A shutdown that refuses to run when no connection is open.
shutdown_requires_connection(o) ==
    IF ~MT5_AVAILABLE
    THEN Outcome([success |-> TRUE,
                  message |-> <<"MetaTrader5 package not available - nothing to shutdown">>],
                 <<>>)
    ELSE IF ~connected
    THEN Outcome([success |-> FALSE,
                  message |-> <<"MT5 is not initialized">>,
                  error |-> "NOT_INITIALIZED"],
                 <<>>)
    ELSE shutdown_try(o)

shutdown(o) ==
    IF ~MT5_AVAILABLE
    THEN Outcome([success |-> TRUE,
                  message |-> <<"MetaTrader5 package not available - nothing to shutdown">>],
                 <<>>)
    ELSE shutdown_try(o)

\* (the pandas_available and numpy_available entries of data are left out:
\* no handler reads them)
test_server(o) ==
    Outcome([success |-> TRUE,
             message |-> <<"Server is working correctly">>,
             data |-> [mt5_available |-> MT5_AVAILABLE,
                       server_name |-> "MetaTrader 5 MCP Server",
                       version |-> "1.0.0"]],
            <<>>)

\* A library that keeps the connection up while more than one caller relies
\* on it.
LibConnected_shared(cs, o) ==
    IF cs = <<>> \/ o.ret.k = "raise" THEN connected
    ELSE IF cs[1] = "initialize" THEN (connected \/ Truthy(o.ret.v))
    ELSE IF cs[1] = "shutdown" THEN Cardinality(relies) > 1
    ELSE connected

\* The library's connection after a handler made the calls `cs` with behaviour o:
\* a successful mt5.initialize() connects, a completed mt5.shutdown() disconnects.
LibConnected(cs, o) ==
    IF cs = <<>> \/ o.ret.k = "raise" THEN connected
    ELSE IF cs[1] = "initialize" THEN (connected \/ Truthy(o.ret.v))
    ELSE IF cs[1] = "shutdown" THEN FALSE
    ELSE connected

\* The callers relying on the connection after `caller` got `out` from `tool`.
Relying(tool, caller, out) ==
    IF tool = "initialize" /\ ~out.propagated /\ out.result.success
    THEN relies \cup {caller}
    ELSE IF tool = "shutdown" THEN relies \ {caller}
    ELSE relies

\* One tool call, start to finish, by one caller.
Handle(tool, caller, o, out) ==
    /\ lastTool' = tool
    /\ lastCaller' = caller
    /\ lastLib' = o
    /\ calls' = out.calls
    /\ result' = out.result
    /\ propagated' = out.propagated
    /\ connected' = LibConnected(out.calls, o)
    /\ initialize_called' = (initialize_called \/ tool = "initialize")
    /\ after_initialize' = (lastTool = "initialize" /\ ~propagated /\ result.success)
    /\ relies' = Relying(tool, caller, out)
    /\ UNCHANGED <<MT5_AVAILABLE, parseVars, clientVars, asgiVars, launchVars>>

Initialize ==
    \E c \in Callers, o \in LibBehaviour(InitializeRets) :
        Handle("initialize", c, o, initialize(o))

GetVersion ==
    \E c \in Callers, o \in LibBehaviour(VersionRets) :
        Handle("get_version", c, o, get_version(o))

GetTerminalInfo ==
    \E c \in Callers, o \in LibBehaviour(TerminalInfoRets) :
        Handle("get_terminal_info", c, o, get_terminal_info(o))

Shutdown ==
    \E c \in Callers, o \in LibBehaviour(ShutdownRets) :
        Handle("shutdown", c, o, shutdown(o))

TestServer ==
    \E c \in Callers :
        Handle("test_server", c, NoLib, test_server(NoLib))

\* The names registered with @mcp.tool()
RegisteredTools ==
    {"initialize", "get_version", "get_terminal_info", "shutdown", "test_server"}

\* Names a tools/call request may carry that are not registered
UnregisteredNames == {"ping", "order_send"}

\* The handler registered under `name`
ToolHandler(name, o) ==
    CASE name = "initialize" -> initialize(o)
      [] name = "get_version" -> get_version(o)
      [] name = "get_terminal_info" -> get_terminal_info(o)
      [] name = "shutdown" -> shutdown(o)
      [] name = "test_server" -> test_server(o)

\* The error response to a tools/call whose name is not registered
UnknownTool(name) == [isError |-> TRUE, error |-> Fmt("Unknown tool: ", name)]

\* A dispatch that answers an unknown name with the health tool's result.
tools_call_fallback(name, o) ==
    IF name \in RegisteredTools
    THEN ToolHandler(name, o)
    ELSE ToolHandler("test_server", o)

\* tools/call: the dispatch of the MCP server object to the registered handler
tools_call(name, o) ==
    IF name \in RegisteredTools
    THEN ToolHandler(name, o)
    ELSE Outcome(UnknownTool(name), <<>>)

\* A tools/call request for a name that is not registered
CallUnregistered ==
    \E c \in Callers, name \in UnregisteredNames :
        Handle(name, c, NoLib, tools_call(name, NoLib))

(***************************************************************************)
(* Initial values of the three groups of variables.                        *)
(***************************************************************************)
ParseNotRun == [notrun |-> TRUE]
NotRun == [k |-> "notrun"]

ServerIdle ==
    /\ connected = FALSE
    /\ lastTool = "-"
    /\ lastCaller = "-"
    /\ lastLib = NoLib
    /\ calls = <<>>
    /\ result = NoResult
    /\ propagated = FALSE
    /\ initialize_called = FALSE
    /\ after_initialize = FALSE
    /\ relies = {}

ParseIdle ==
    /\ sse_text = <<>>
    /\ parsed = ParseNotRun

ClientIdle ==
    /\ pc = "test_connectivity"
    /\ session_id = "None"
    /\ hdr_sid = "None"
    /\ initialized = FALSE
    /\ sse_working = FALSE
    /\ tests_passed = 0
    /\ sent = <<>>
    /\ last = <<>>
    /\ last_ret = NotRun
    /\ est_sid = "None"
    /\ exit_code = NotRun

AsgiIdle == http_log = <<>>

LaunchIdle ==
    /\ launch = NotRun
    /\ cli = NotRun

Init ==
    /\ MT5_AVAILABLE \in BOOLEAN
    /\ ServerIdle
    /\ ParseIdle
    /\ ClientIdle
    /\ AsgiIdle
    /\ LaunchIdle

Next ==
    \/ Initialize
    \/ GetVersion
    \/ GetTerminalInfo
    \/ Shutdown
    \/ TestServer
    \/ CallUnregistered

Spec == Init /\ [][Next]_vars


(***************************************************************************)
(* Response bodies and parse_sse_response (test_mt5_server.py).            *)
(*                                                                         *)
(* A body is a sequence of text pieces:                                    *)
(*   "NL"    a newline                  "SP"   a blank                     *)
(*   "DATA"  the text `data:`           "EVT"  the text `event: message`   *)
(*   "BAD"   a text that is not JSON                                       *)
(*   the JSON texts of JsonTexts.                                          *)
(* `data: ` is therefore "DATA" followed by "SP".                          *)
(***************************************************************************)
JsonTexts == {"JRES", "JERR", "JTOOLS", "JNOTOOLS", "JRESNUM", "JLIST"}

\* JSON values as Python sees them
JDict(f) == [t |-> "dict", d |-> f]
JList(items) == [t |-> "list", items |-> items]
JStr(pieces) == [t |-> "str", s |-> pieces]
JNum(n) == [t |-> "num", n |-> n]

\* json.loads of one JSON text
JsonValue(a) ==
    CASE a = "JRES" ->
            JDict([result |-> JDict([protocolVersion |-> JStr(<<"2024-11-05">>)])])
      [] a = "JERR" ->
            JDict([error |-> JDict([code |-> JNum(-32600)])])
      [] a = "JTOOLS" ->
            JDict([result |-> JDict([tools |->
                JList(<<JDict([name |-> JStr(<<"initialize">>)]),
                        JDict([name |-> JStr(<<"get_version">>)])>>)])])
      [] a = "JNOTOOLS" ->
            JDict([result |-> JDict([tools |-> JList(<<>>)])])
      [] a = "JRESNUM" ->
            JDict([result |-> JNum(1)])
      [] a = "JLIST" ->
            JList(<<1>>)

\* `key in v` for a dict
HasKey(v, key) == v.t = "dict" /\ key \in DOMAIN v.d

IsWhitespace(a) == a \in {"SP", "NL"}

RECURSIVE LStrip(_)
LStrip(text) ==
    IF text # <<>> /\ IsWhitespace(Head(text)) THEN LStrip(Tail(text)) ELSE text

RECURSIVE RStrip(_)
RStrip(text) ==
    IF text # <<>> /\ IsWhitespace(text[Len(text)])
    THEN RStrip(SubSeq(text, 1, Len(text) - 1))
    ELSE text

\* str.strip()
Strip(text) == RStrip(LStrip(text))

\* str.split('\n'): the pieces between newlines; always at least one line
RECURSIVE SplitLines(_, _)
SplitLines(text, line) ==
    IF text = <<>> THEN <<line>>
    ELSE IF Head(text) = "NL" THEN <<line>> \o SplitLines(Tail(text), <<>>)
    ELSE SplitLines(Tail(text), Append(line, Head(text)))

\* line.startswith('data: ')
StartsWithData(line) == Len(line) >= 2 /\ line[1] = "DATA" /\ line[2] = "SP"

\* the for loop of lines 34-37: data_line of the first matching line, or None
RECURSIVE FindDataLine(_)
FindDataLine(lines) ==
    IF lines = <<>> THEN [found |-> FALSE, rest |-> <<>>]
    ELSE IF StartsWithData(Head(lines))
    THEN [found |-> TRUE, rest |-> SubSeq(Head(lines), 3, Len(Head(lines)))]
    ELSE FindDataLine(Tail(lines))

\* json.loads(text): surrounding whitespace is skipped, and exactly one JSON
\* text must remain; anything else raises JSONDecodeError.
json_loads(text) ==
    LET t == Strip(text)
    IN  IF Len(t) = 1 /\ t[1] \in JsonTexts
        THEN Returned(JsonValue(t[1]))
        ELSE Raised("JSONDecodeError")

NoDataFound == JDict([error |-> JStr(<<"No data found in SSE response">>)])
FailedToParse(e) == JDict([error |-> JStr(Fmt("Failed to parse SSE: ", e))])

\* A parser that falls back to parsing the whole body as JSON.
parse_sse_response_or_json(sse_text_) ==
    LET data_line == FindDataLine(SplitLines(Strip(sse_text_), <<>>))
        whole == json_loads(sse_text_)
    IN  IF data_line.found /\ data_line.rest # <<>>
        THEN LET loaded == json_loads(data_line.rest)
             IN  IF loaded.k = "raise"
                 THEN Returned(FailedToParse(loaded.e))
                 ELSE Returned(loaded.v)
        ELSE IF whole.k = "return" THEN Returned(whole.v)
        ELSE Returned(NoDataFound)

\* A parser that splits the body without stripping it first.
parse_sse_response_unstripped(sse_text_) ==
    LET data_line == FindDataLine(SplitLines(sse_text_, <<>>))
    IN  IF data_line.found /\ data_line.rest # <<>>
        THEN LET loaded == json_loads(data_line.rest)
             IN  IF loaded.k = "raise"
                 THEN Returned(FailedToParse(loaded.e))
                 ELSE Returned(loaded.v)
        ELSE Returned(NoDataFound)

\* parse_sse_response: what the call does (it returns; nothing it raises
\* gets past `except Exception`).
parse_sse_response(sse_text_) ==
    LET data_line == FindDataLine(SplitLines(Strip(sse_text_), <<>>))
    IN  IF data_line.found /\ data_line.rest # <<>>
        THEN LET loaded == json_loads(data_line.rest)
             IN  IF loaded.k = "raise"
                 THEN Returned(FailedToParse(loaded.e))
                 ELSE Returned(loaded.v)
        ELSE Returned(NoDataFound)

\* Bodies the parser is tried on: every text of up to MaxBodyLen pieces,
\* alone or framed as an event (`event: message\n` before, `\n\n` after).
MaxBodyLen == 4

BodyPieces == {"NL", "SP", "DATA", "EVT", "BAD", "JRES", "JERR"}

RECURSIVE TextsUpTo(_)
TextsUpTo(n) ==
    IF n = 0 THEN {<<>>}
    ELSE LET shorter == TextsUpTo(n - 1)
         IN  shorter \cup {Append(t, a) : t \in shorter, a \in BodyPieces}

Bodies ==
    {pre \o core \o post :
        pre \in {<<>>, <<"EVT", "NL">>},
        core \in TextsUpTo(MaxBodyLen),
        post \in {<<>>, <<"NL", "NL">>}}

ParseInit ==
    /\ MT5_AVAILABLE = TRUE
    /\ ServerIdle
    /\ sse_text \in Bodies
    /\ parsed = ParseNotRun
    /\ ClientIdle
    /\ AsgiIdle
    /\ LaunchIdle

Parse ==
    /\ parsed = ParseNotRun
    /\ parsed' = parse_sse_response(sse_text)
    /\ UNCHANGED <<sse_text, serverVars, clientVars, asgiVars, launchVars>>

ParseNext == Parse

ParseSpec == ParseInit /\ [][ParseNext]_vars

(***************************************************************************)
(* The client, MT5ServerTester (test_mt5_server.py), and one run of its    *)
(* run_all_tests.  The server is the environment: each request is answered *)
(* by a response or fails with an exception of the requests library.       *)
(***************************************************************************)
HttpResponse(status, sid, body) ==
    [k |-> "response", status |-> status, sid |-> sid, body |-> body]

\* session.post / session.get raising (connection error, timeout)
RequestFailed == Raised("ConnectionError")

\* values of the mcp-session-id response header: absent ("None"), present but
\* empty, or an identifier
Sids == {"s1", "s2"}
SidHeaders == {"None", ""} \cup Sids

\* `event: message\ndata: <json>\n\n`
SseBody(json) == <<"EVT", "NL", "DATA", "SP", json, "NL", "NL">>

\* One POST as the server sees it: who sent it, where, the JSON-RPC method,
\* the tool of a tools/call, and the mcp-session-id header it carried.
Request(by, url, method, tool, content_type, sid) ==
    [by |-> by, url |-> url, method |-> method, tool |-> tool,
     content_type |-> content_type, sid |-> sid]

\* session.post(...): the request goes out with the session's headers
Post(c, by, url, method, tool, content_type) ==
    [c EXCEPT !.sent = Append(@, Request(by, url, method, tool, content_type,
                                         c.hdr_sid))]

\* One exchange as the client lived it: the request's sender and method, what
\* came back, and what the sending function made of it.
Exchange(by, method, tool, resp, ret) ==
    [by |-> by, method |-> method, tool |-> tool, resp |-> resp, ret |-> ret]

\* What a client function amounts to: the client afterwards, what the
\* function returned or raised, and its exchanges.
Finished(c, ret, log) == [c |-> c, ret |-> ret, log |-> log]

IsTrue(ret) == ret.k = "return" /\ ret.v = TRUE

\* A capture that notes the identifier but does not add the header.
capture_session_id_field_only(c, r) ==
    IF r.sid \notin {"None", ""} THEN [c EXCEPT !.session_id = r.sid] ELSE c

\* lines 77-84, 266-272, 498-504: session_id = response.headers.get(...);
\* `if session_id:` passes over an absent header and an empty one
capture_session_id(c, r) ==
    IF r.sid \notin {"None", ""}
    THEN [c EXCEPT !.session_id = r.sid, !.hdr_sid = r.sid]
    ELSE c

\* result.get('result', {}).get('protocolVersion', 'Unknown') raises
\* AttributeError unless the reply is a dict whose 'result', if any, is a dict.
GetProtocolVersionRaises(v) ==
    \/ v.t # "dict"
    \/ HasKey(v, "result") /\ v.d.result.t # "dict"

test_sse_endpoint(c, r) ==
    LET by == "test_sse_endpoint"
        c0 == Post(c, by, "sse_url", "initialize", "-", "application/json")
        c1 == capture_session_id(c0, r)
        false(cx) == Finished(cx, Returned(FALSE),
                              <<Exchange(by, "initialize", "-", r, Returned(FALSE))>>)
    IN  IF r.k = "raise" THEN false(c0)
        ELSE IF r.status # 200 THEN false(c0)
        ELSE IF Strip(r.body) = <<>> THEN false(c1)
        ELSE LET reply == parse_sse_response(r.body).v
             IN  IF GetProtocolVersionRaises(reply) THEN false(c1)
                 ELSE IF HasKey(reply, "result")
                 THEN Finished([c1 EXCEPT !.sse_working = TRUE], Returned(TRUE),
                               <<Exchange(by, "initialize", "-", r, Returned(TRUE))>>)
                 ELSE false(c1)

\* A handshake that counts only when its tools/list probe is answered 200.
establish_session_try_probed(c, r, probe) ==
    LET by == "establish_session"
        c0 == Post(c, by, "mcp_url", "initialize", "-", "application/json")
        c1 == capture_session_id(c0, r)
        false(cx) == Finished(cx, Returned(FALSE),
                              <<Exchange(by, "initialize", "-", r, Returned(FALSE))>>)
        raise(cx, e) == Finished(cx, Raised(e),
                                 <<Exchange(by, "initialize", "-", r, Raised(e))>>)
    IN  IF r.k = "raise" THEN raise(c0, r.e)
        ELSE IF r.status # 200 THEN false(c0)
        ELSE IF Strip(r.body) = <<>> THEN false(c1)
        ELSE LET reply == parse_sse_response(r.body).v
             IN  IF GetProtocolVersionRaises(reply) THEN raise(c1, "AttributeError")
                 ELSE IF HasKey(reply, "result")
                 THEN LET ok == probe.k = "response" /\ probe.status = 200
                          c2 == [c1 EXCEPT !.initialized = ok]
                          c3 == Post(c2, by, "mcp_url", "tools/list", "-",
                                     "application/json")
                      IN  Finished(c3, Returned(ok),
                                   <<Exchange(by, "initialize", "-", r, Returned(ok)),
                                     Exchange(by, "tools/list", "-", probe,
                                              Returned(ok))>>)
                 ELSE false(c1)

\* lines 50-125: the body of establish_session's try block; what it raises is
\* for the except clause of establish_session
establish_session_try(c, r, probe) ==
    LET by == "establish_session"
        c0 == Post(c, by, "mcp_url", "initialize", "-", "application/json")
        c1 == capture_session_id(c0, r)
        false(cx) == Finished(cx, Returned(FALSE),
                              <<Exchange(by, "initialize", "-", r, Returned(FALSE))>>)
        raise(cx, e) == Finished(cx, Raised(e),
                                 <<Exchange(by, "initialize", "-", r, Raised(e))>>)
    IN  IF r.k = "raise" THEN raise(c0, r.e)
        ELSE IF r.status # 200 THEN false(c0)
        ELSE IF Strip(r.body) = <<>> THEN false(c1)
        ELSE LET reply == parse_sse_response(r.body).v
             IN  IF GetProtocolVersionRaises(reply) THEN raise(c1, "AttributeError")
                 ELSE IF HasKey(reply, "result")
                 THEN \* the session test call: whatever comes back, return True
                      LET c2 == [c1 EXCEPT !.initialized = TRUE]
                          c3 == Post(c2, by, "mcp_url", "tools/list", "-",
                                     "application/json")
                      IN  Finished(c3, Returned(TRUE),
                                   <<Exchange(by, "initialize", "-", r, Returned(TRUE)),
                                     Exchange(by, "tools/list", "-", probe,
                                              Returned(TRUE))>>)
                 ELSE false(c1)

\* An establish_session without the enclosing try: what the body raises
\* escapes.
establish_session_no_try(c, r, probe) == establish_session_try(c, r, probe)

\* lines 127-129: except Exception: return False
establish_session(c, r, probe) ==
    LET done == establish_session_try(c, r, probe)
    IN  IF done.ret.k = "raise"
        THEN Finished(done.c, Returned(FALSE),
                      <<Exchange("establish_session", "initialize", "-", r,
                                 Returned(FALSE))>>)
        ELSE done

\* A negotiation that tries the streamable endpoint whatever the first
\* attempt gave.
test_mcp_initialize_both(c, r1, r2, probe) ==
    LET a == test_sse_endpoint(c, r1)
        b == establish_session(a.c, r2, probe)
    IN  Finished(b.c, Returned(IsTrue(a.ret) \/ IsTrue(b.ret)), a.log \o b.log)

test_mcp_initialize(c, r1, r2, probe) ==
    LET a == test_sse_endpoint(c, r1)
    IN  IF a.ret.k = "raise" THEN a
        ELSE IF a.ret.v THEN Finished(a.c, Returned(TRUE), a.log)
        ELSE LET b == establish_session(a.c, r2, probe)
             IN  IF b.ret.k = "raise" THEN Finished(b.c, b.ret, a.log \o b.log)
                 ELSE IF ~b.ret.v
                 THEN Finished(b.c, Returned(FALSE), a.log \o b.log)
                 ELSE Finished(b.c, Returned(TRUE), a.log \o b.log)

\* f"HTTP {response.status_code}: {error_text}"
HttpErrorText(status) ==
    CASE status = 500 -> "HTTP 500"
      [] status = 406 -> "HTTP 406"
      [] status = 404 -> "HTTP 404"
      [] OTHER -> "HTTP ?"

SuccessTrue == JDict([result |-> JDict([success |-> TRUE])])

\* A call that hands every 200 body to the parser, the empty one included.
call_result_always_parsed(r) ==
    IF r.k = "raise" THEN Raised(r.e)
    ELSE IF r.status = 200 THEN parse_sse_response(r.body)
    ELSE Raised(HttpErrorText(r.status))

\* lines 154-163, 191-198: what a call makes of the response
call_result(r) ==
    IF r.k = "raise" THEN Raised(r.e)
    ELSE IF r.status = 200
    THEN IF Strip(r.body) # <<>>
         THEN parse_sse_response(r.body)
         ELSE Returned(SuccessTrue)
    ELSE Raised(HttpErrorText(r.status))

\* A call that takes over the session identifier of the response it gets.
mcp_call_with_session_capture(c, method, tool, r) ==
    LET by == "mcp_call_with_session"
        c0 == Post(c, by, "mcp_url", method, tool, "application/json")
    IN  IF ~c.initialized
        THEN Finished(c, Raised("Session not initialized. Call establish_session() first."),
                      <<>>)
        ELSE Finished(IF r.k = "response" THEN capture_session_id(c0, r) ELSE c0,
                      call_result(r),
                      <<Exchange(by, method, tool, r, call_result(r))>>)

mcp_call_with_session(c, method, tool, r) ==
    LET by == "mcp_call_with_session"
    IN  IF ~c.initialized
        THEN Finished(c, Raised("Session not initialized. Call establish_session() first."),
                      <<>>)
        ELSE Finished(Post(c, by, "mcp_url", method, tool, "application/json"),
                      call_result(r),
                      <<Exchange(by, method, tool, r, call_result(r))>>)

\* A call that sends the request again when the server rejects it.
mcp_call_sse_resend(c, method, tool, r) ==
    LET by == "mcp_call_sse"
        c0 == Post(c, by, "sse_url", method, tool, "application/json")
        c1 == IF r.k = "response" /\ r.status # 200
              THEN Post(c0, by, "sse_url", method, tool, "application/json")
              ELSE c0
    IN  Finished(c1, call_result(r), <<Exchange(by, method, tool, r, call_result(r))>>)

mcp_call_sse(c, method, tool, r) ==
    LET by == "mcp_call_sse"
    IN  Finished(Post(c, by, "sse_url", method, tool, "application/json"),
                 call_result(r),
                 <<Exchange(by, method, tool, r, call_result(r))>>)

\* A dispatch that posts to the SSE endpoint whenever no streamable session
\* is initialized.
mcp_call_sse_by_default(c, method, tool, r) ==
    IF c.sse_working \/ ~c.initialized
    THEN mcp_call_sse(c, method, tool, r)
    ELSE mcp_call_with_session(c, method, tool, r)

mcp_call(c, method, tool, r) ==
    IF c.sse_working
    THEN mcp_call_sse(c, method, tool, r)
    ELSE mcp_call_with_session(c, method, tool, r)

\* lines 313-328: what test_list_tools makes of a returned result; a TypeError
\* or AttributeError on the way is caught by its except and gives False.
tools_listed(reply) ==
    IF ~HasKey(reply, "result") THEN FALSE
    ELSE LET inner == reply.d.result
         IN  IF inner.t # "dict" THEN FALSE
             ELSE IF "tools" \notin DOMAIN inner.d THEN FALSE
             ELSE LET tools == inner.d.tools
                  IN  /\ tools.t = "list"
                      /\ \A i \in DOMAIN tools.items : tools.items[i].t = "dict"
                      /\ Len(tools.items) > 0

test_list_tools(c, r) ==
    LET call == mcp_call(c, "tools/list", "-", r)
    IN  IF call.ret.k = "raise"
        THEN Finished(call.c, Returned(FALSE), call.log)
        ELSE Finished(call.c, Returned(tools_listed(call.ret.v)), call.log)

ToolsTested == <<"test_server", "initialize", "get_version", "get_terminal_info">>

\* the four try blocks of test_mt5_tools, from the i-th on
RECURSIVE tool_calls(_, _, _)
tool_calls(c, i, rs) ==
    IF i > Len(ToolsTested) THEN [c |-> c, log |-> <<>>, success_count |-> 0]
    ELSE LET call == mcp_call(c, "tools/call", ToolsTested[i], rs[i])
             counted == call.ret.k = "return" /\ HasKey(call.ret.v, "result")
             rest == tool_calls(call.c, i + 1, rs)
         IN  [c |-> rest.c,
              log |-> call.log \o rest.log,
              success_count |-> rest.success_count + (IF counted THEN 1 ELSE 0)]

test_mt5_tools(c, rs) ==
    LET done == tool_calls(c, 1, rs)
    IN  Finished(done.c, Returned(done.success_count > 0), done.log)

ContentTypes == <<"application/json", "application/vnd.mcp+json", "text/plain">>

\* the loop of test_fastmcp_transport over the content types, from the i-th on
RECURSIVE transport_attempts(_, _, _)
transport_attempts(c, i, rs) ==
    IF i > Len(ContentTypes) THEN Finished(c, Returned(FALSE), <<>>)
    ELSE LET by == "test_fastmcp_transport"
             r == rs[i]
             c0 == Post(c, by, "mcp_url", "initialize", "-", ContentTypes[i])
         IN  IF r.k = "response" /\ r.status = 200 /\ Strip(r.body) # <<>>
             THEN Finished(capture_session_id(c0, r), Returned(TRUE),
                           <<Exchange(by, "initialize", "-", r, Returned(TRUE))>>)
             ELSE LET rest == transport_attempts(c0, i + 1, rs)
                  IN  Finished(rest.c, rest.ret,
                               <<Exchange(by, "initialize", "-", r, Returned(FALSE))>>
                                   \o rest.log)

test_fastmcp_transport(c, rs) == transport_attempts(c, 1, rs)

\* test_connectivity: only a failure of the first GET makes it False
test_connectivity(r) == Returned(r.k = "response")

\* test_server_info: True iff some endpoint answered 200
test_server_info(rs) ==
    Returned(\E i \in DOMAIN rs : rs[i].k = "response" /\ rs[i].status = 200)

(***************************************************************************)
(* What the server may answer.                                             *)
(***************************************************************************)
GetResponses ==
    {RequestFailed, HttpResponse(200, "None", <<>>), HttpResponse(404, "None", <<>>)}

InfoEndpoints ==
    <<"/docs", "/openapi.json", "/health", "/info", "/mt5/docs", "/mt5/health">>

\* initialize responses: every kind of body with a session header, and the
\* well-formed body with each header or none
HandshakeResponses ==
    {RequestFailed, HttpResponse(500, "None", <<"BAD">>)}
    \cup {HttpResponse(200, sid, SseBody("JRES")) : sid \in SidHeaders}
    \cup {HttpResponse(200, "s1", body) :
            body \in {<<>>, SseBody("JERR"), SseBody("JRESNUM"), SseBody("BAD"),
                      <<"JRES">>}}
    \cup {HttpResponse(200, "None", SseBody("JERR")),
          HttpResponse(200, "None", SseBody("JLIST")),
          HttpResponse(200, "None", <<"SP", "NL">>)}

TransportResponses ==
    {RequestFailed, HttpResponse(406, "None", <<>>),
     HttpResponse(200, "None", <<>>),
     HttpResponse(200, "None", <<"JRES">>),
     HttpResponse(200, "s1", SseBody("JERR")),
     HttpResponse(200, "s2", SseBody("JRES"))}

ProbeResponses ==
    {RequestFailed, HttpResponse(500, "None", <<>>),
     HttpResponse(200, "None", SseBody("JTOOLS"))}

ListResponses ==
    {RequestFailed, HttpResponse(500, "None", <<>>),
     HttpResponse(200, "s2", SseBody("JTOOLS"))}
    \cup {HttpResponse(200, "None", body) :
            body \in {<<>>, <<"NL">>, SseBody("JTOOLS"), SseBody("JNOTOOLS"),
                      SseBody("JRESNUM"), SseBody("JERR"), <<"JTOOLS">>}}

ToolResponses ==
    {HttpResponse(500, "None", <<>>),
     HttpResponse(200, "None", SseBody("JRES")),
     HttpResponse(200, "None", SseBody("JERR"))}

(***************************************************************************)
(* run_all_tests: the six suites in order, then the summary.               *)
(***************************************************************************)
Client ==
    [session_id |-> session_id, hdr_sid |-> hdr_sid, initialized |-> initialized,
     sse_working |-> sse_working, sent |-> sent]

\* A run that goes straight to the summary when a suite fails.
AfterSuite_stop_at_failure(suite, next) ==
  \E done \in {suite} :
    /\ session_id' = done.c.session_id
    /\ hdr_sid' = done.c.hdr_sid
    /\ initialized' = done.c.initialized
    /\ sse_working' = done.c.sse_working
    /\ sent' = done.c.sent
    /\ last' = done.log
    /\ last_ret' = done.ret
    /\ IF done.ret.k = "raise"
       THEN /\ pc' = "crashed"
            /\ tests_passed' = tests_passed
            /\ exit_code' = Returned(1)
       ELSE /\ pc' = IF done.ret.v THEN next ELSE "summary"
            /\ tests_passed' = tests_passed + (IF done.ret.v THEN 1 ELSE 0)
            /\ exit_code' = exit_code
    /\ UNCHANGED <<serverVars, parseVars, asgiVars, launchVars>>

\* `if self.test_x(): tests_passed += 1`, then on to the next suite; an
\* exception leaving the suite leaves run_all_tests and main as well.
AfterSuite(suite, next) ==
  \E done \in {suite} :
    /\ session_id' = done.c.session_id
    /\ hdr_sid' = done.c.hdr_sid
    /\ initialized' = done.c.initialized
    /\ sse_working' = done.c.sse_working
    /\ sent' = done.c.sent
    /\ last' = done.log
    /\ last_ret' = done.ret
    /\ IF done.ret.k = "raise"
       THEN /\ pc' = "crashed"
            /\ tests_passed' = tests_passed
            /\ exit_code' = Returned(1)
       ELSE /\ pc' = next
            /\ tests_passed' = tests_passed + (IF done.ret.v THEN 1 ELSE 0)
            /\ exit_code' = exit_code
    /\ UNCHANGED <<serverVars, parseVars, asgiVars, launchVars>>

TestConnectivity ==
    /\ pc = "test_connectivity"
    /\ \E r \in GetResponses :
          AfterSuite(Finished(Client, test_connectivity(r), <<>>), "test_server_info")
    /\ UNCHANGED est_sid

TestServerInfo ==
    /\ pc = "test_server_info"
    /\ \E rs \in [DOMAIN InfoEndpoints -> GetResponses] :
          AfterSuite(Finished(Client, test_server_info(rs), <<>>),
                     "test_fastmcp_transport")
    /\ UNCHANGED est_sid

TestFastmcpTransport ==
    /\ pc = "test_fastmcp_transport"
    /\ \E rs \in [DOMAIN ContentTypes -> TransportResponses] :
          AfterSuite(test_fastmcp_transport(Client, rs), "test_mcp_initialize")
    /\ UNCHANGED est_sid

\* the header of the initialize response that established the session
EstablishedBy(log) ==
    LET ok == {i \in DOMAIN log : log[i].method = "initialize" /\ IsTrue(log[i].ret)}
    IN  IF ok = {} THEN "None" ELSE log[CHOOSE i \in ok : TRUE].resp.sid

TestMcpInitialize ==
    /\ pc = "test_mcp_initialize"
    /\ \E r1 \in HandshakeResponses, r2 \in HandshakeResponses, probe \in ProbeResponses :
          LET done == test_mcp_initialize(Client, r1, r2, probe)
          IN  /\ AfterSuite(done, "test_list_tools")
              /\ est_sid' = EstablishedBy(done.log)

TestListTools ==
    /\ pc = "test_list_tools"
    /\ \E r \in ListResponses :
          AfterSuite(test_list_tools(Client, r), "test_mt5_tools")
    /\ UNCHANGED est_sid

TestMt5Tools ==
    /\ pc = "test_mt5_tools"
    /\ \E rs \in [DOMAIN ToolsTested -> ToolResponses] :
          AfterSuite(test_mt5_tools(Client, rs), "summary")
    /\ UNCHANGED est_sid

\* lines 588-596 and main: True iff some suite passed; exit code 0 iff True
Summary ==
    /\ pc = "summary"
    /\ pc' = "done"
    /\ last_ret' = Returned(tests_passed > 0)
    /\ exit_code' = Returned(IF tests_passed > 0 THEN 0 ELSE 1)
    /\ UNCHANGED <<session_id, hdr_sid, initialized, sse_working, tests_passed,
                   sent, last, est_sid, serverVars, parseVars, asgiVars, launchVars>>

ClientInit ==
    /\ MT5_AVAILABLE = TRUE
    /\ ServerIdle
    /\ ParseIdle
    /\ ClientIdle
    /\ AsgiIdle
    /\ LaunchIdle

ClientNext ==
    \/ TestConnectivity
    \/ TestServerInfo
    \/ TestFastmcpTransport
    \/ TestMcpInitialize
    \/ TestListTools
    \/ TestMt5Tools
    \/ Summary

ClientSpec == ClientInit /\ [][ClientNext]_vars

(***************************************************************************)
(* The combined ASGI application (asgi.py).  A path is the sequence of its *)
(* segments: `/` is <<>>, `/mt5/mcp` is <<"mt5", "mcp">>.                  *)
(***************************************************************************)
Mount(prefix, sub_app) == [kind |-> "mount", path |-> prefix, to |-> sub_app]
Endpoint(path, function) == [kind |-> "endpoint", path |-> path, to |-> function]

\* lines 38-59: the routes in the order they are added to the application
RouteTable ==
    <<Mount(<<"mt5">>, "http_app"),
      Mount(<<>>, "sse_app"),
      Endpoint(<<"health">>, "health_check"),
      Endpoint(<<"info">>, "info")>>

IsPrefix(p, path) == Len(p) <= Len(path) /\ SubSeq(path, 1, Len(p)) = p

\* a mount takes every path under its prefix, an endpoint its own path only
Matches(route, path) ==
    IF route.kind = "mount" THEN IsPrefix(route.path, path) ELSE route.path = path

HealthMapping == [status |-> "healthy", service |-> "mt5-mcp-server"]

InfoMapping ==
    [service |-> "MetaTrader 5 MCP Server", version |-> "0.1.0", docs |-> "/docs",
     transport_endpoints |-> [streamable_http |-> "/mt5/mcp", sse |-> "/"]]

\* what the route answers: an endpoint its mapping, a mount whatever the
\* mounted application makes of the rest of the path
Serve(route, path) ==
    IF route.kind = "endpoint"
    THEN [by |-> route.to,
          body |-> IF route.to = "health_check" THEN HealthMapping ELSE InfoMapping]
    ELSE [by |-> route.to,
          body |-> [forwarded |-> SubSeq(path, Len(route.path) + 1, Len(path))]]

NotFound == [by |-> "-", body |-> [detail |-> "Not Found"]]

\* first-match routing over the table, in order
route_request(path) ==
    LET hits == {i \in DOMAIN RouteTable : Matches(RouteTable[i], path)}
    IN  IF hits = {} THEN NotFound
        ELSE Serve(RouteTable[CHOOSE i \in hits : \A j \in hits : i <= j], path)

RequestPaths ==
    {<<>>, <<"health">>, <<"info">>, <<"mt5", "mcp">>, <<"mt5", "health">>,
     <<"messages">>}

MaxRequests == 3

HttpGet ==
    /\ Len(http_log) < MaxRequests
    /\ \E path \in RequestPaths :
          http_log' = Append(http_log, [path |-> path, answer |-> route_request(path)])
    /\ UNCHANGED <<serverVars, parseVars, clientVars, launchVars>>

AsgiInit ==
    /\ MT5_AVAILABLE = TRUE
    /\ ServerIdle
    /\ ParseIdle
    /\ ClientIdle
    /\ AsgiIdle
    /\ LaunchIdle

AsgiNext == HttpGet

AsgiSpec == AsgiInit /\ [][AsgiNext]_vars

(***************************************************************************)
(* The launchers: asgi.py, run_fixed_server.py, mt5_server_simple.py run   *)
(* as scripts, start_server.py, and the command line interface cli.main.   *)
(***************************************************************************)
Unset == [set |-> FALSE]
Set(v) == [set |-> TRUE, v |-> v]

\* os.environ.get(name, default)
Get(var, default) == IF var.set THEN var.v ELSE default

\* int(text) for the port texts used here
int(text) ==
    CASE text = "8000" -> 8000
      [] text = "9000" -> 9000
      [] text = "7000" -> 7000

Address(host, port) == [host |-> host, port |-> port]

\* values of MT5_MCP_HOST / MT5_MCP_PORT, and of --host / --port
Environments == [host : {Unset, Set("10.0.0.5")}, port : {Unset, Set("9000")}]
Flags == [host : {Unset, Set("192.168.1.7")}, port : {Unset, Set("7000")}]
NoFlags == [host |-> Unset, port |-> Unset]

\* asgi.py lines 69-70
asgi_address(env) ==
    Address(Get(env.host, "0.0.0.0"), IF env.port.set THEN int(env.port.v) ELSE 8000)

\* run_fixed_server.py lines 28-29
run_fixed_server_address(env) ==
    Address(Get(env.host, "127.0.0.1"), int(Get(env.port, "8000")))

\* mt5_server_simple.py lines 234-235
mt5_server_simple_address(env) ==
    Address(Get(env.host, "0.0.0.0"), IF env.port.set THEN int(env.port.v) ELSE 8000)

\* cli.py lines 40-45, 53: args.host and args.port after parse_args()
cli_dev_address(flags) ==
    Address(Get(flags.host, "127.0.0.1"),
            IF flags.port.set THEN int(flags.port.v) ELSE 8000)

\* start_server.py lines 17-20: the CLI with fixed flags
start_server_address ==
    cli_dev_address([host |-> Set("0.0.0.0"), port |-> Set("8000")])

Launched(by, flags, env, listen) ==
    [k |-> "launched", by |-> by, flags |-> flags, env |-> env, listen |-> listen]

RunAsgi ==
    /\ LaunchIdle
    /\ \E env \in Environments :
          launch' = Launched("asgi", NoFlags, env, asgi_address(env))
    /\ UNCHANGED <<cli, serverVars, parseVars, clientVars, asgiVars>>

RunFixedServer ==
    /\ LaunchIdle
    /\ \E env \in Environments :
          launch' = Launched("run_fixed_server", NoFlags, env,
                             run_fixed_server_address(env))
    /\ UNCHANGED <<cli, serverVars, parseVars, clientVars, asgiVars>>

RunSimpleServer ==
    /\ LaunchIdle
    /\ \E env \in Environments :
          launch' = Launched("mt5_server_simple", NoFlags, env,
                             mt5_server_simple_address(env))
    /\ UNCHANGED <<cli, serverVars, parseVars, clientVars, asgiVars>>

RunStartServer ==
    /\ LaunchIdle
    /\ \E env \in Environments :
          launch' = Launched("start_server",
                             [host |-> Set("0.0.0.0"), port |-> Set("8000")],
                             env, start_server_address)
    /\ UNCHANGED <<cli, serverVars, parseVars, clientVars, asgiVars>>

\* The command line of cli.main: --version, the subcommand ("none" when
\* absent), --use-sse, --host / --port.
CommandLines ==
    [version : BOOLEAN, command : {"none", "dev", "install"}, use_sse : BOOLEAN,
     flags : Flags]

\* What the things cli.main calls do during the invocation:
\*   uvicorn      `import uvicorn; uvicorn.run(...)`: returns when the server
\*                stops, or raises ImportError, or raises another exception
\*   uvicorn_cmd  exit code of `python -m uvicorn ...` (subprocess.call)
\*   sse          mcp.run(transport="sse"): returns or raises
\*   install_cmd  subprocess.call of the install command: exit code, or raises
\*   fastmcp      `import fastmcp; fastmcp.install(mcp)`: returns, or raises
\*                ImportError, or raises another exception
Worlds ==
    [uvicorn : {"returns", "ImportError", "RuntimeError"},
     uvicorn_cmd : {0, 1, 3},
     sse : {"returns", "raises"},
     install_cmd : {Returned(0), Returned(2), Raised("OSError")},
     fastmcp : {"returns", "ImportError", "AttributeError"}]

\* cli.py lines 64-73 and 97-104: the SSE transport, 0 or 1
run_sse(w) == IF w.sse = "returns" THEN Returned(0) ELSE Returned(1)

\* cli.py lines 59-104: the dev subcommand
cli_dev(argv, w) ==
    IF argv.use_sse THEN run_sse(w)
    ELSE CASE w.uvicorn = "returns" -> Returned(0)
           [] w.uvicorn = "ImportError" -> Returned(w.uvicorn_cmd)
           [] OTHER -> run_sse(w)

\* cli.py lines 105-122: the install subcommand; only ImportError is caught
cli_install(w) ==
    IF w.install_cmd.k = "raise" THEN Raised(w.install_cmd.e)
    ELSE IF w.install_cmd.v = 0 THEN Returned(0)
    ELSE CASE w.fastmcp = "returns" -> Returned(0)
           [] w.fastmcp = "ImportError" -> Returned(1)
           [] OTHER -> Raised(w.fastmcp)

\* cli.py lines 53-125: main, after parse_args()
cli_main(argv, w) ==
    IF argv.version THEN Returned(0)
    ELSE IF argv.command = "dev" THEN cli_dev(argv, w)
    ELSE IF argv.command = "install" THEN cli_install(w)
    ELSE Returned(1)

CliMain ==
    /\ LaunchIdle
    /\ \E argv \in CommandLines, w \in Worlds, env \in Environments :
          /\ cli' = [k |-> "ran", argv |-> argv, world |-> w,
                     result |-> cli_main(argv, w)]
          /\ launch' = IF ~argv.version /\ argv.command = "dev"
                       THEN Launched("cli dev", argv.flags, env,
                                     cli_dev_address(argv.flags))
                       ELSE launch
    /\ UNCHANGED <<serverVars, parseVars, clientVars, asgiVars>>

LaunchInit ==
    /\ MT5_AVAILABLE = TRUE
    /\ ServerIdle
    /\ ParseIdle
    /\ ClientIdle
    /\ AsgiIdle
    /\ LaunchIdle

LaunchNext ==
    \/ RunAsgi
    \/ RunFixedServer
    \/ RunSimpleServer
    \/ RunStartServer
    \/ CliMain

LaunchSpec == LaunchInit /\ [][LaunchNext]_vars

(***************************************************************************)
(* Properties of the tool handlers (checked under Spec).                   *)
(***************************************************************************)
HandlerRan == lastTool \in RegisteredTools

GuardedTools == {"initialize", "get_version", "get_terminal_info"}

\* The first library call of the last handler returned this value.
FirstCallReturned == calls # <<>> /\ lastLib.ret.k = "return"

\* The texts of the exceptions the library raised during the last handler:
\* those of the calls that were made and raised.
RaisedDuringHandler ==
    {e \in ExcTexts :
        \/ calls # <<>> /\ lastLib.ret.k = "raise" /\ lastLib.ret.e = e
        \/ /\ \E i \in DOMAIN calls : calls[i] = "last_error"
           /\ lastLib.err.k = "raise" /\ lastLib.err.e = e
        \/ /\ \E i \in DOMAIN calls : calls[i] = "_asdict"
           /\ lastLib.conv.k = "raise" /\ lastLib.conv.e = e}

\* C1: with MT5_AVAILABLE false, after any sequence of tool calls, the handler
\* that ran last made no call into the library and the library's connection
\* was never touched.
C1_NoLibraryCallWhenUnavailable ==
    ~MT5_AVAILABLE => (calls = <<>> /\ connected = FALSE)

C1_Witness ==
    /\ ~MT5_AVAILABLE
    /\ lastTool = "shutdown"
    /\ calls = <<>>

\* C2 as stated: with MT5_AVAILABLE false every handler returns success = false
\* and error = "MT5_NOT_AVAILABLE".
C2_Original ==
    (~MT5_AVAILABLE /\ HandlerRan) =>
        /\ result.success = FALSE
        /\ "error" \in DOMAIN result
        /\ result.error = "MT5_NOT_AVAILABLE"

\* C2 amended: with MT5_AVAILABLE false, initialize, get_version and
\* get_terminal_info return success = false and error = "MT5_NOT_AVAILABLE";
\* shutdown and test_server return success = true and no error.
C2_UnavailableResults ==
    (~MT5_AVAILABLE /\ HandlerRan) =>
        IF lastTool \in GuardedTools
        THEN /\ result.success = FALSE
             /\ "error" \in DOMAIN result
             /\ result.error = "MT5_NOT_AVAILABLE"
        ELSE /\ result.success = TRUE
             /\ "error" \notin DOMAIN result

C2_Witness ==
    /\ ~MT5_AVAILABLE
    /\ lastTool = "get_terminal_info"
    /\ result.success = FALSE

\* C3: no exception leaves a handler, and whenever a library call made by the
\* handler raised (the tool's own call, the last_error query or the conversion
\* of the result) the handler returned success = false with error equal to the
\* exception's text.
C3_ExceptionsBecomeResults ==
    /\ ~propagated
    /\ \A e \in RaisedDuringHandler :
          /\ result.success = FALSE
          /\ "error" \in DOMAIN result
          /\ result.error = e

C3_Witness ==
    /\ lastTool = "get_terminal_info"
    /\ calls = <<"terminal_info", "_asdict">>
    /\ lastLib.conv.k = "raise"
    /\ result.error = lastLib.conv.e

\* C4: in initialize, get_version and get_terminal_info, when the library call
\* returns a falsy/null value the handler's calls are exactly that call followed
\* by one last_error query, and the code the query returns is in the message of
\* a success = false result; when the call returns a value that is not
\* falsy/null, last_error is not called.
C4_LastErrorQueriedOnce ==
    (lastTool \in GuardedTools /\ FirstCallReturned) =>
        IF ~Truthy(lastLib.ret.v)
        THEN /\ Len(calls) = 2
             /\ calls[1] # "last_error"
             /\ calls[2] = "last_error"
             /\ lastLib.err.k = "return" =>
                   /\ result.success = FALSE
                   /\ result.message[2] = Str(lastLib.err.v)
        ELSE \A i \in DOMAIN calls : calls[i] # "last_error"

C4_Witness ==
    /\ lastTool = "get_version"
    /\ FirstCallReturned
    /\ IsNone(lastLib.ret.v)
    /\ lastLib.err.k = "return"
    /\ calls = <<"version", "last_error">>
    /\ result.success = FALSE


\* shutdown has run and no initialize call came before it
ShutdownBeforeInitialize == lastTool = "shutdown" /\ ~initialize_called

\* C12 as stated: shutdown called before any initialize returns success = true,
\* whether or not the library is available.
C12_Original ==
    ShutdownBeforeInitialize => ~propagated /\ result.success = TRUE

\* C12 amended: shutdown checks no precondition.  Called before any
\* initialize it returns success = true when the library is unavailable, and
\* when the library is available and its shutdown call returns; if that call
\* raises, it returns success = false with error = str(e).
C12_ShutdownHasNoPrecondition ==
    ShutdownBeforeInitialize =>
        /\ ~propagated
        /\ IF MT5_AVAILABLE /\ lastLib.ret.k = "raise"
           THEN /\ calls = <<"shutdown">>
                /\ result.success = FALSE
                /\ result.error = lastLib.ret.e
           ELSE /\ calls = (IF MT5_AVAILABLE THEN <<"shutdown">> ELSE <<>>)
                /\ result.success = TRUE
                /\ "error" \notin DOMAIN result

C12_Witness ==
    /\ ShutdownBeforeInitialize
    /\ MT5_AVAILABLE
    /\ ~connected
    /\ calls = <<"shutdown">>
    /\ result.success = TRUE

\* initialize has run right after an initialize that returned success = true
InitializeTwice == after_initialize /\ lastTool = "initialize"

\* C13 as stated: with the library available, the second of two initialize
\* calls in succession returns success = true like the first.
C13_Original ==
    InitializeTwice => ~propagated /\ result.success = TRUE

\* C13 amended: initialize keeps no state and has no already-initialized
\* guard.  Called right after a successful initialize it calls the library's
\* initialize again and returns success = true whenever that call returns
\* true (an idempotent library); if the call returns false or raises, the
\* second result is success = false.
C13_SecondInitializeAsksLibrary ==
    InitializeTwice =>
        /\ MT5_AVAILABLE
        /\ ~propagated
        /\ calls # <<>> /\ calls[1] = "initialize"
        /\ IF lastLib.ret = Returned(PyBool(TRUE))
           THEN /\ calls = <<"initialize">>
                /\ result.success = TRUE
                /\ "error" \notin DOMAIN result
                /\ connected
           ELSE result.success = FALSE

C13_Witness ==
    /\ InitializeTwice
    /\ result.success = TRUE
    /\ connected
    /\ relies = {"A", "B"}

\* the last tools/call named a tool that is not registered
UnregisteredCalled == lastTool \in UnregisteredNames

\* C14: a tools/call whose name is none of initialize, get_version,
\* get_terminal_info, shutdown, test_server is answered with an error
\* response, never with a success result; no handler runs and no library
\* call is made.
C14_UnregisteredToolIsError ==
    /\ RegisteredTools \cap UnregisteredNames = {}
    /\ UnregisteredCalled =>
          /\ ~propagated
          /\ result = UnknownTool(lastTool)
          /\ "success" \notin DOMAIN result
          /\ calls = <<>>

C14_Witness ==
    /\ UnregisteredCalled
    /\ MT5_AVAILABLE
    /\ connected
    /\ result = UnknownTool("order_send")

\* C15 as stated: every handler result contains success and message, no key
\* other than success, message, data and error, data only when success is
\* true, and error whenever success is false.
C15_Original ==
    HandlerRan =>
        /\ ~propagated
        /\ {"success", "message"} \subseteq DOMAIN result
        /\ DOMAIN result \subseteq {"success", "message", "data", "error"}
        /\ "data" \in DOMAIN result => result.success = TRUE
        /\ result.success = FALSE => "error" \in DOMAIN result

\* C15 amended: every handler result contains success and message and no key
\* other than success, message, data, error and error_code; data appears only
\* when success is true; a success = false result carries exactly one of
\* error (library unavailable, or an exception's text) and error_code (the
\* value of last_error() after a falsy/null library result), and a
\* success = true result carries neither.
C15_NormalizedResult ==
    HandlerRan =>
        /\ ~propagated
        /\ {"success", "message"} \subseteq DOMAIN result
        /\ DOMAIN result \subseteq {"success", "message", "data", "error", "error_code"}
        /\ "data" \in DOMAIN result => result.success = TRUE
        /\ result.success = FALSE =>
              ("error" \in DOMAIN result) # ("error_code" \in DOMAIN result)
        /\ result.success = TRUE =>
              DOMAIN result \cap {"error", "error_code"} = {}
        /\ "error_code" \in DOMAIN result <=>
              /\ lastTool \in GuardedTools
              /\ calls # <<>>
              /\ calls[Len(calls)] = "last_error"
              /\ lastLib.err.k = "return"

C15_Witness ==
    /\ lastTool = "get_version"
    /\ calls = <<"version", "last_error">>
    /\ result.success = FALSE
    /\ DOMAIN result = {"success", "message", "error_code"}
    /\ result.error_code = -10005

\* Any tool call by caller c
CallBy(c) ==
    \/ \E o \in LibBehaviour(InitializeRets) :
          Handle("initialize", c, o, initialize(o))
    \/ \E o \in LibBehaviour(VersionRets) :
          Handle("get_version", c, o, get_version(o))
    \/ \E o \in LibBehaviour(TerminalInfoRets) :
          Handle("get_terminal_info", c, o, get_terminal_info(o))
    \/ \E o \in LibBehaviour(ShutdownRets) :
          Handle("shutdown", c, o, shutdown(o))

\* mt5.shutdown() was called by the last handler and returned
ShutdownCompleted ==
    /\ lastTool = "shutdown"
    /\ calls = <<"shutdown">>
    /\ lastLib.ret.k = "return"

\* C19: the callers share one connection with no mutual exclusion: in every
\* state every caller can make its next call, and a completed shutdown by any
\* caller leaves the terminal uninitialized, whoever still relies on it.
C19_NoMutualExclusion ==
    /\ \A c \in Callers : ENABLED CallBy(c)
    /\ ShutdownCompleted => ~connected

\* A's initialize succeeded, B's shutdown followed (A itself has not called
\* shutdown since), and A's next query ran against the uninitialized terminal.
C19_Witness ==
    /\ lastTool \in {"get_version", "get_terminal_info"}
    /\ lastCaller = "A"
    /\ "A" \in relies
    /\ ~connected
    /\ calls # <<>>

(***************************************************************************)
(* Properties of parse_sse_response (checked under ParseSpec).  The        *)
(* operators below describe a body by positions, not by the parser's       *)
(* loop.                                                                   *)
(***************************************************************************)
ParseRan == parsed # ParseNotRun

SetMin(S) == CHOOSE x \in S : \A y \in S : x <= y
SetMax(S) == CHOOSE x \in S : \A y \in S : x >= y

\* the body without its leading and trailing whitespace
StrippedText(text) ==
    LET solid == {i \in DOMAIN text : ~IsWhitespace(text[i])}
    IN  IF solid = {} THEN <<>> ELSE SubSeq(text, SetMin(solid), SetMax(solid))

\* positions at which a line of `text` starts with `data: `
DataLineStarts(text) ==
    {i \in DOMAIN text :
        /\ i = 1 \/ text[i - 1] = "NL"
        /\ i + 1 <= Len(text)
        /\ text[i] = "DATA"
        /\ text[i + 1] = "SP"}

\* what follows `data: ` on the line starting at position i
Remainder(text, i) ==
    LET ends == {j \in i..Len(text) : text[j] = "NL"} \cup {Len(text) + 1}
    IN  SubSeq(text, i + 2, SetMin(ends) - 1)

\* the text is one JSON text, possibly between whitespace
IsJsonText(text) ==
    LET solid == {i \in DOMAIN text : ~IsWhitespace(text[i])}
    IN  Cardinality(solid) = 1 /\ \A i \in solid : text[i] \in JsonTexts

TheJsonValue(text) ==
    JsonValue(text[CHOOSE i \in DOMAIN text : ~IsWhitespace(text[i])])

\* C5 as stated: a body that begins with a `data: ` line parses to the JSON
\* value of the rest of that line, and any other body to the JSON value of the
\* whole body.
C5_Original ==
    ParseRan =>
        IF 1 \in DataLineStarts(sse_text)
        THEN IsJsonText(Remainder(sse_text, 1)) =>
                parsed = Returned(TheJsonValue(Remainder(sse_text, 1)))
        ELSE IsJsonText(sse_text) => parsed = Returned(TheJsonValue(sse_text))

\* C5 amended: the parser looks at the first line that starts with `data: `
\* in the body stripped of surrounding whitespace.  If that line has text after
\* the prefix, the result is the JSON value of that text, or the mapping
\* {"error": "Failed to parse SSE: ..."} when the text is not JSON.  For every
\* other body, a plain JSON body included, the result is
\* {"error": "No data found in SSE response"}: the whole body is never parsed
\* as JSON.
C5_FirstDataLineOrNoData ==
    ParseRan =>
        LET text == StrippedText(sse_text)
            starts == DataLineStarts(text)
        IN  IF starts # {} /\ Remainder(text, SetMin(starts)) # <<>>
            THEN LET rest == Remainder(text, SetMin(starts))
                 IN  IF IsJsonText(rest)
                     THEN parsed = Returned(TheJsonValue(rest))
                     ELSE parsed = Returned(FailedToParse("JSONDecodeError"))
            ELSE parsed = Returned(NoDataFound)

C5_Witness ==
    /\ sse_text = <<"EVT", "NL", "DATA", "SP", "JRES", "NL", "NL">>
    /\ parsed = Returned(JsonValue("JRES"))

\* C6 as stated: the empty body parses to {"error": "No data found in SSE
\* response"} without raising, and so does every body none of whose lines
\* starts with `data: `.
C6_Original ==
    ParseRan =>
        /\ parsed.k = "return"
        /\ sse_text = <<>> => parsed.v = NoDataFound
        /\ DataLineStarts(sse_text) = {} => parsed.v = NoDataFound

\* C6 amended: the parser never raises; the empty body parses to
\* {"error": "No data found in SSE response"}, and so does every body that,
\* once stripped of leading and trailing whitespace, has no line starting with
\* `data: `.
C6_NoDataFound ==
    ParseRan =>
        /\ parsed.k = "return"
        /\ sse_text = <<>> => parsed.v = NoDataFound
        /\ DataLineStarts(StrippedText(sse_text)) = {} => parsed.v = NoDataFound

C6_Witness ==
    /\ sse_text = <<>>
    /\ parsed = Returned(NoDataFound)

(***************************************************************************)
(* Properties of the client's session negotiation and calls (checked under *)
(* ClientSpec).  Responses are described by what they carry, with the      *)
(* positional operators above, not by the client's parser.                 *)
(***************************************************************************)
Negotiators == {"test_sse_endpoint", "establish_session"}
CallFunctions == {"mcp_call_sse", "mcp_call_with_session"}

Negotiated == pc \in {"test_list_tools", "test_mt5_tools", "summary", "done"}

Established == sse_working \/ initialized

\* the handshake exchanges of the negotiation that has just returned
HandshakeExchanges ==
    {i \in DOMAIN last : last[i].by \in Negotiators /\ last[i].method = "initialize"}

\* position in `sent` of the `initialize` request of negotiator `by`
InitializeAt(by) ==
    SetMax({i \in DOMAIN sent : sent[i].by = by /\ sent[i].method = "initialize"})

\* status 200 and an mcp-session-id header
OkWithHeader(resp) ==
    resp.k = "response" /\ resp.status = 200 /\ resp.sid # "None"

\* the body contains a JSON text with a `result` key
ContainsResultKey(body) ==
    \E i \in DOMAIN body :
        body[i] \in JsonTexts /\ HasKey(JsonValue(body[i]), "result")

\* the body is an event stream whose first `data: ` line holds a JSON object
\* with a `result` key whose value is an object
WellFormedResult(body) ==
    LET text == StrippedText(body)
        starts == DataLineStarts(text)
    IN  /\ starts # {}
        /\ IsJsonText(Remainder(text, SetMin(starts)))
        /\ LET v == TheJsonValue(Remainder(text, SetMin(starts)))
           IN  HasKey(v, "result") /\ v.d.result.t = "dict"

\* what C7 promises of a handshake exchange whose response is the given one
EstablishedWith(i) ==
    /\ IsTrue(last[i].ret)
    /\ IsTrue(last_ret)
    /\ Established
    /\ est_sid = last[i].resp.sid
    /\ \A k \in DOMAIN sent :
          k > InitializeAt(last[i].by) => sent[k].sid = last[i].resp.sid

\* every request sent since the accepted handshake carries its header value
CarriesSessionHeader ==
    est_sid \in Sids =>
        /\ hdr_sid = est_sid
        /\ session_id = est_sid
        /\ \E by \in Negotiators :
              /\ \E i \in DOMAIN sent : sent[i].by = by /\ sent[i].method = "initialize"
              /\ \A k \in DOMAIN sent :
                    k > InitializeAt(by) =>
                        sent[k].method # "initialize" /\ sent[k].sid = est_sid

\* C7 as stated: an `initialize` response with status 200, a body containing
\* a `result` key and an mcp-session-id header leaves the client established,
\* and every request sent afterwards carries that header value.
C7_Original ==
    pc = "test_list_tools" =>
        \A i \in HandshakeExchanges :
            OkWithHeader(last[i].resp) /\ ContainsResultKey(last[i].resp.body)
                => EstablishedWith(i)

\* C7 amended: an `initialize` response with status 200, a non-empty
\* mcp-session-id header and a well-formed body (an event stream whose first
\* `data: ` line is a JSON object whose `result` is an object) leaves the
\* client established, and every request it sends afterwards (the tools/list
\* probe, tools/list, tools/call, on either endpoint) carries that header
\* value unchanged.
C7_WellFormedHandshakeEstablishes ==
    /\ pc = "test_list_tools" =>
          \A i \in HandshakeExchanges :
              /\ OkWithHeader(last[i].resp)
              /\ last[i].resp.sid # ""
              /\ WellFormedResult(last[i].resp.body)
              => EstablishedWith(i)
    /\ Negotiated => CarriesSessionHeader

C7_Witness ==
    /\ pc = "done"
    /\ est_sid = "s1"
    /\ initialized
    /\ Cardinality({k \in DOMAIN sent : sent[k].by \in CallFunctions /\ sent[k].sid = "s1"}) = 5
    /\ \E k \in DOMAIN sent : sent[k].sid = "s2"

\* positions in `sent` of the `initialize` requests of the negotiation
SseAttempts ==
    {i \in DOMAIN sent : sent[i].by = "test_sse_endpoint" /\ sent[i].method = "initialize"}

StreamableAttempts ==
    {i \in DOMAIN sent : sent[i].by = "establish_session" /\ sent[i].method = "initialize"}

\* the exchanges of `last` made by negotiator `by` that returned False
FailedAttempts(by) ==
    {i \in HandshakeExchanges : last[i].by = by /\ last[i].ret = Returned(FALSE)}

\* C8: the negotiation sends `initialize` to the event-stream (root) endpoint
\* first, and to the streamable endpoint only after the event-stream attempt
\* failed; each endpoint is attempted at most once; the negotiation reports
\* failure exactly when both attempts failed.
C8_SseFirstThenStreamableOnce ==
    /\ Negotiated =>
          /\ Cardinality(SseAttempts) = 1
          /\ Cardinality(StreamableAttempts) <= 1
          /\ \A i \in SseAttempts : sent[i].url = "sse_url"
          /\ \A j \in StreamableAttempts :
                /\ sent[j].url = "mcp_url"
                /\ \A i \in SseAttempts : i < j
    /\ pc = "test_list_tools" =>
          /\ last[1].by = "test_sse_endpoint"
          /\ Cardinality(HandshakeExchanges) =
                Cardinality(SseAttempts) + Cardinality(StreamableAttempts)
          /\ StreamableAttempts # {} <=> FailedAttempts("test_sse_endpoint") # {}
          /\ last_ret = Returned(FALSE) <=>
                /\ FailedAttempts("test_sse_endpoint") # {}
                /\ FailedAttempts("establish_session") # {}
          /\ last_ret \in {Returned(FALSE), Returned(TRUE)}

C8_Witness ==
    /\ pc = "test_list_tools"
    /\ last_ret = Returned(TRUE)
    /\ FailedAttempts("test_sse_endpoint") # {}
    /\ StreamableAttempts # {}

\* the kinds of handshake failure: no response (timeout, connection error), a
\* status other than 200, an empty body, a body that does not parse, a parsed
\* body without a `result` key
NoResponse(resp) == resp.k = "raise"

Non200(resp) == resp.k = "response" /\ resp.status # 200

EmptyBody(resp) ==
    resp.k = "response" /\ resp.status = 200 /\ StrippedText(resp.body) = <<>>

Unparsable(resp) ==
    /\ resp.k = "response" /\ resp.status = 200
    /\ StrippedText(resp.body) # <<>>
    /\ LET text == StrippedText(resp.body)
           starts == DataLineStarts(text)
       IN  starts = {} \/ ~IsJsonText(Remainder(text, SetMin(starts)))

NoResultKey(resp) ==
    /\ resp.k = "response" /\ resp.status = 200
    /\ LET text == StrippedText(resp.body)
           starts == DataLineStarts(text)
       IN  /\ starts # {}
           /\ IsJsonText(Remainder(text, SetMin(starts)))
           /\ ~HasKey(TheJsonValue(Remainder(text, SetMin(starts))), "result")

HandshakeFailure(resp) ==
    \/ NoResponse(resp)
    \/ Non200(resp)
    \/ EmptyBody(resp)
    \/ Unparsable(resp)
    \/ NoResultKey(resp)

\* C9: every handshake failure, on either endpoint, is reported as the boolean
\* false by the step that met it, and by the negotiation when both endpoints
\* failed; no exception leaves establish_session, test_sse_endpoint or
\* test_mcp_initialize.
C9_HandshakeFailureIsFalse ==
    /\ pc # "crashed"
    /\ pc = "test_list_tools" =>
          /\ last_ret.k = "return"
          /\ \A i \in HandshakeExchanges :
                /\ last[i].ret.k = "return"
                /\ HandshakeFailure(last[i].resp) => last[i].ret = Returned(FALSE)
          /\ (\A i \in HandshakeExchanges : HandshakeFailure(last[i].resp))
                => /\ last_ret = Returned(FALSE)
                   /\ Cardinality(HandshakeExchanges) = 2

C9_Witness ==
    /\ pc = "test_list_tools"
    /\ Len(last) = 2
    /\ NoResponse(last[1].resp)
    /\ Unparsable(last[2].resp)
    /\ last_ret = Returned(FALSE)
    /\ ~Established

\* the exchanges of the suite that has just returned in which a call was
\* answered with a status other than 200
Rejected(log) ==
    {i \in DOMAIN log : log[i].by \in CallFunctions /\ Non200(log[i].resp)}

\* C10: once the session is established, a call answered with a status other
\* than 200 is reported as an error (mcp_call raises "HTTP <status>"), and the
\* suite sends one request per call and nothing else: no new `initialize`, no
\* second copy of the rejected request.
C10_RejectedCallNotRetried ==
    [][(pc \in {"test_list_tools", "test_mt5_tools"} /\ Established) =>
          /\ Len(sent') = Len(sent) + Len(last')
          /\ SubSeq(sent', 1, Len(sent)) = sent
          /\ \A i \in DOMAIN last' :
                /\ sent'[Len(sent) + i].method = last'[i].method
                /\ sent'[Len(sent) + i].tool = last'[i].tool
                /\ sent'[Len(sent) + i].method # "initialize"
          /\ \A i \in Rejected(last') :
                last'[i].ret = Raised(HttpErrorText(last'[i].resp.status))
          /\ Established'
          /\ hdr_sid' = hdr_sid]_vars

C10_Witness ==
    /\ pc = "summary"
    /\ Established
    /\ Len(last) = 4
    /\ Rejected(last) = {2}
    /\ last[2].ret = Raised("HTTP 500")
    /\ last[3].ret.k = "return"

\* C11: the negotiation outcome is terminal.  Once test_mcp_initialize has
\* returned, no later suite (test_list_tools, test_mt5_tools and the calls
\* they make, rejected or raising ones included) changes whether the client
\* is established over the event stream, established over the streamable
\* endpoint or failed, nor the session identifier it recorded.
C11_NegotiationOutcomeTerminal ==
    [][(pc \in {"test_list_tools", "test_mt5_tools", "summary"}) =>
          /\ sse_working' = sse_working
          /\ initialized' = initialized
          /\ session_id' = session_id
          /\ hdr_sid' = hdr_sid]_vars

C11_Witness ==
    /\ pc = "summary"
    /\ initialized /\ ~sse_working
    /\ session_id = "s1"
    /\ Rejected(last) # {}
    /\ \E k \in DOMAIN sent :
          sent[k].by = "mcp_call_with_session" /\ sent[k].method = "tools/list"

\* a tools/list or tools/call request has been sent
ToolRequests ==
    {k \in DOMAIN sent : sent[k].method \in {"tools/list", "tools/call"}}

\* C20: the client sends no tools/list or tools/call request unless a
\* handshake has succeeded.  When neither the SSE handshake nor the streamable
\* handshake has succeeded, mcp_call raises before anything is sent, so
\* test_list_tools and test_mt5_tools return False with zero requests sent.
C20_NoCallWithoutHandshake ==
    /\ [](ToolRequests # {} => Established)
    /\ [][(pc \in {"test_list_tools", "test_mt5_tools"} /\ ~Established) =>
             /\ sent' = sent
             /\ last' = <<>>
             /\ last_ret' = Returned(FALSE)
             /\ tests_passed' = tests_passed]_vars

\* both handshakes were tried and failed, and test_mt5_tools has returned
C20_Witness ==
    /\ pc = "summary"
    /\ ~Established
    /\ \E k \in DOMAIN sent : sent[k].by = "test_sse_endpoint"
    /\ \E k \in DOMAIN sent : sent[k].by = "establish_session"
    /\ ToolRequests = {}
    /\ last = <<>>
    /\ last_ret = Returned(FALSE)

\* a session identifier is recorded: session_id is set or the header is attached
Recorded == session_id # "None" \/ hdr_sid # "None"

\* the suite that just ran got an `initialize` response with header value sid
\* and a body containing a `result` key, and left the client established
EstablishingResponse(log, sid) ==
    \E i \in DOMAIN log :
        /\ log[i].method = "initialize"
        /\ log[i].resp.k = "response"
        /\ log[i].resp.sid = sid
        /\ ContainsResultKey(log[i].resp.body)

\* C21: the client records a session identifier only on the transition to the
\* established state, that is only for an `initialize` response whose body
\* contains a `result` key; a recorded identifier implies that some handshake
\* succeeded.
C21_RecordedOnlyWhenEstablished ==
    /\ [](Recorded => Established)
    /\ [][(session_id' # session_id \/ hdr_sid' # hdr_sid) =>
             /\ Established'
             /\ EstablishingResponse(last', session_id')]_vars

\* positions in `last` of the `initialize` exchange of establish_session
StreamableHandshakes ==
    {i \in DOMAIN last :
        last[i].by = "establish_session" /\ last[i].method = "initialize"}

\* establish_session returned true with the session marked initialized, after
\* sending its tools/list probe
ReturnedTrueAfterProbe(i) ==
    /\ last[i].ret = Returned(TRUE)
    /\ last_ret = Returned(TRUE)
    /\ initialized
    /\ i + 1 \in DOMAIN last
    /\ last[i + 1].by = "establish_session"
    /\ last[i + 1].method = "tools/list"

\* C22 as stated: establish_session returns true, with the session marked
\* initialized, whenever the `initialize` response has status 200 and a body
\* containing a `result` key, whatever the tools/list probe gives.
C22_Original ==
    pc = "test_list_tools" =>
        \A i \in StreamableHandshakes :
            /\ last[i].resp.k = "response"
            /\ last[i].resp.status = 200
            /\ ContainsResultKey(last[i].resp.body)
            => ReturnedTrueAfterProbe(i)

\* C22 amended: establish_session returns true, with the session marked
\* initialized, whenever the `initialize` response has status 200 and a
\* well-formed body (an event stream whose first `data: ` line is a JSON object
\* whose `result` is an object), whatever the tools/list probe gives: a
\* non-200 probe response or an exception during the probe changes nothing.
C22_ProbeOutcomeIgnored ==
    pc = "test_list_tools" =>
        \A i \in StreamableHandshakes :
            /\ last[i].resp.k = "response"
            /\ last[i].resp.status = 200
            /\ WellFormedResult(last[i].resp.body)
            => ReturnedTrueAfterProbe(i)

\* the streamable handshake succeeded and its probe was answered 500
C22_Witness ==
    /\ pc = "test_list_tools"
    /\ StreamableHandshakes = {2}
    /\ ReturnedTrueAfterProbe(2)
    /\ Non200(last[3].resp)

\* C23: a post-handshake call (mcp_call_with_session or mcp_call_sse) answered
\* 200 with an empty or whitespace-only body returns {"result": {"success":
\* true}}, not what the parser makes of such a body; an `initialize` handshake
\* answered with the same body fails.
C23_EmptyBodyCallSucceeds ==
    \A i \in DOMAIN last :
        EmptyBody(last[i].resp) =>
            /\ last[i].by \in CallFunctions =>
                  /\ last[i].ret = Returned(SuccessTrue)
                  /\ last[i].ret # parse_sse_response(last[i].resp.body)
            /\ (last[i].by \in Negotiators /\ last[i].method = "initialize") =>
                  /\ last[i].ret = Returned(FALSE)
                  /\ (last[i].by = "test_sse_endpoint" => ~sse_working)
                  /\ (last[i].by = "establish_session" => ~initialized)

\* the SSE handshake succeeded and tools/list was answered 200 with a
\* whitespace-only body
C23_Witness ==
    /\ pc = "test_mt5_tools"
    /\ sse_working
    /\ Len(last) = 1
    /\ last[1].by = "mcp_call_sse"
    /\ last[1].resp.k = "response"
    /\ last[1].resp.body = <<"NL">>
    /\ last[1].ret = Returned(SuccessTrue)

\* the six suites in the order of run_all_tests, then its summary and return
Suites ==
    <<"test_connectivity", "test_server_info", "test_fastmcp_transport",
      "test_mcp_initialize", "test_list_tools", "test_mt5_tools">>

Stages == Suites \o <<"summary", "done">>

\* the step of stage i: a suite returns a boolean, counted when true, and the
\* run goes on to the next stage; the summary returns whether some suite
\* passed, and the exit code is 0 exactly when it returned true
StageStep(i) ==
    /\ pc = Stages[i]
    /\ pc' = Stages[i + 1]
    /\ IF i <= Len(Suites)
       THEN /\ last_ret' \in {Returned(TRUE), Returned(FALSE)}
            /\ tests_passed' = tests_passed + (IF last_ret'.v THEN 1 ELSE 0)
            /\ exit_code' = NotRun
       ELSE /\ tests_passed' = tests_passed
            /\ last_ret' = Returned(tests_passed > 0)
            /\ exit_code' = Returned(IF last_ret'.v THEN 0 ELSE 1)

\* C24: run_all_tests runs the six suites once each in the fixed order
\* connectivity, server info, transport, handshake, tools list, tool calls,
\* going on after a suite that failed; the passed count stays within 0..6; it
\* returns true iff at least one suite passed, and the exit code of the test
\* client is 0 iff it returned true.
C24_SixSuitesInOrder ==
    /\ [](tests_passed \in 0..Len(Suites) /\ pc \in {Stages[i] : i \in DOMAIN Stages})
    /\ [][\E i \in 1..(Len(Stages) - 1) : StageStep(i)]_vars

\* only the handshake suite passed: the three suites before it failed, the
\* two after it ran (their calls were sent) and failed, and the run returned
\* true with exit code 0
C24_Witness ==
    /\ pc = "done"
    /\ tests_passed = 1
    /\ Established
    /\ \E k \in DOMAIN sent : sent[k].method = "tools/list" /\ sent[k].by \in CallFunctions
    /\ Len(last) = Len(ToolsTested)
    /\ last_ret = Returned(TRUE)
    /\ exit_code = Returned(0)

(***************************************************************************)
(* Properties of the combined ASGI application (checked under AsgiSpec).   *)
(***************************************************************************)
\* C16: every GET /health is answered by the health endpoint with
\* {status: healthy, service: mt5-mcp-server} and every GET /info by the info
\* endpoint with its fixed mapping, whatever was requested before.
C16_HealthAndInfoAnswered ==
    \A i \in DOMAIN http_log :
        /\ http_log[i].path = <<"health">> =>
              http_log[i].answer = [by |-> "health_check", body |-> HealthMapping]
        /\ http_log[i].path = <<"info">> =>
              http_log[i].answer = [by |-> "info", body |-> InfoMapping]

(***************************************************************************)
(* Properties of the launchers (checked under LaunchSpec).                 *)
(***************************************************************************)
\* the hard-coded default address of each launcher
DefaultAddress(by) ==
    CASE by = "asgi" -> Address("0.0.0.0", 8000)
      [] by = "mt5_server_simple" -> Address("0.0.0.0", 8000)
      [] by = "run_fixed_server" -> Address("127.0.0.1", 8000)
      [] by = "cli dev" -> Address("127.0.0.1", 8000)
      [] by = "start_server" -> Address("0.0.0.0", 8000)

\* flag, else environment variable, else default
Precedence(flag, var, default) ==
    IF flag.set THEN flag.v ELSE IF var.set THEN var.v ELSE default

\* C17: every launcher starts the listener on the host and port given by
\* CLI flag > environment variable > hard-coded default; the dev subcommand
\* without --host/--port uses MT5_MCP_HOST / MT5_MCP_PORT when they are set.
C17_FlagThenEnvironmentThenDefault ==
    launch # NotRun =>
        /\ launch.listen.host =
              Precedence(launch.flags.host, launch.env.host,
                         DefaultAddress(launch.by).host)
        /\ launch.listen.port =
              IF launch.flags.port.set THEN int(launch.flags.port.v)
              ELSE IF launch.env.port.set THEN int(launch.env.port.v)
              ELSE DefaultAddress(launch.by).port

\* the requested action succeeded: the version was shown, the server ran
\* until it was stopped, or the installation went through
ActionSucceeded ==
    LET argv == cli.argv
        w == cli.world
    IN  IF argv.version THEN TRUE
        ELSE IF argv.command = "dev"
        THEN IF argv.use_sse THEN w.sse = "returns"
             ELSE \/ w.uvicorn = "returns"
                  \/ w.uvicorn = "ImportError" /\ w.uvicorn_cmd = 0
                  \/ w.uvicorn = "RuntimeError" /\ w.sse = "returns"
        ELSE IF argv.command = "install"
        THEN \/ w.install_cmd = Returned(0)
             \/ w.install_cmd = Returned(2) /\ w.fastmcp = "returns"
        ELSE FALSE

\* C18: every invocation of cli.main ends with exit code 0 when the requested
\* action succeeded and 1 when it failed; no exception leaves main and no
\* other exit code is returned.
C18_ExitCodeZeroOrOne ==
    cli # NotRun =>
        cli.result = Returned(IF ActionSucceeded THEN 0 ELSE 1)

============================================================================
